---- MODULE Spec2Model ----
(***************************************************************************)
(* Optimistic CRUD cache engine (useBaseCrud) and session manager          *)
(* (useAuth) with the session event bus (authEvents).                      *)
(*                                                                         *)
(* Execution is single threaded and cooperative: every action below is one *)
(* run-to-completion piece of a handler, cut at its `await`s.              *)
(* Optional values are sequences of length at most one: None is absence    *)
(* (undefined / null / no stored item), Some(x) is presence.               *)
(***************************************************************************)
EXTENDS Integers, Sequences, FiniteSets, TLC

None == <<>>
Some(x) == <<x>>

(* ---------------------------- bounds ----------------------------------- *)
MaxMut == 2
MaxNow == 1
MaxAuthOps == 2

(* ----------------------- values of the model --------------------------- *)
Keys == {"posts", "users"}
\* the one binding of the engine in the repository: usePosts
MutKeys == {"posts"}
MutIds == 1 .. MaxMut
Ids == {2}
DataTitles == {"N"}
Kinds == {"create", "update", "remove"}
\* a temporary identifier `temp-${Date.now()}` is a string, distinct from
\* every server-issued identifier; it is coded as TempBase + Date.now()
TempBase == 100

\* the useAuth() callers: 1 is a screen that also calls login / register /
\* logout / refreshUser and the account flows, 2 and 3 only read the state
\* (AuthGuard, AuthGate)
Consumers == {1, 2, 3}
\* the screen and one guard
Pair == {1, 2}
Callers == {1}
Alice == [name |-> "alice", role |-> Some("admin"),
          permissions |-> Some(<< "read", "write" >>)]
Bob == [name |-> "bob", role |-> None, permissions |-> None]
Profiles == {Alice, Bob}
\* login/registration responses { access, refresh?, user }
Responses == { [access |-> "t1", refresh |-> Some("r1"), user |-> Alice],
               [access |-> "t2", refresh |-> None, user |-> Bob] }
AuthKinds == {"login", "register"}

\* JSON.stringify / JSON.parse of a user profile: the stored item is a string,
\* which is not the profile; parsing it gives the profile back
Stringify(p) == [json |-> p]
Parse(str) == str.json
\* JSON.parse throws a SyntaxError on a string that is not JSON
Parses(str) == "json" \in DOMAIN str
\* a stored auth_user item cut short by an interrupted write
Corrupt == [text |-> "{"]

EmptyStore == [access |-> None, refresh |-> None, user |-> None]
\* what an earlier run of the application may have left in AsyncStorage
PersistedStores ==
  { EmptyStore,
    [access |-> Some("t0"), refresh |-> Some("r0"), user |-> Some(Stringify(Alice))] }

InitServer == [k \in Keys |->
                 IF k = "posts"
                 THEN << [id |-> 1, title |-> "A"], [id |-> 2, title |-> "B"] >>
                 ELSE << >>]

\* the remote API issues the identifiers that follow those it holds
FirstServerId == Len(InitServer["posts"]) + 1

VARIABLES
  cache,      \* queryClient's query data: key -> None | Some(collection)
  stale,      \* history: the entry's data was read or written in an earlier session
  server,     \* the remote API's authoritative collections
  nextId,     \* the next identifier the remote API issues
  fetch,      \* the list query's fetch per key
  wire,       \* per key: the superseded read still on the wire, and what the
              \* reads that completed have written (followed in SpecReads only)
  mounted,    \* the list query's observer per key: "no" | "active" | "detached"
  mut,        \* the create/update/remove mutations
  now,        \* Date.now()
  store,      \* AsyncStorage: access_token, refresh_token, auth_user
  user,       \* useState(null) of every useAuth() caller
  loading,    \* useState(true) of every useAuth() caller
  listeners,  \* authEvents' listener array (the subscribed useAuth() callers)
  boot,       \* the bootstrap effect of every useAuth() caller
  term,       \* the authEvents callback of every useAuth() caller
  logoutOp,   \* logout() of every useAuth() caller
  loginOp,    \* login / register mutation of every useAuth() caller
  refreshOp,  \* refreshUser mutation of every useAuth() caller
  auxOp,      \* the password-recovery, OTP and change-password mutation in
              \* flight of every useAuth() caller
  authOps     \* number of login / register / logout / refreshUser calls and
              \* of authEvents.emitLogout() calls so far

crudVars == << server, nextId, now >>
queryVars == << cache, stale, fetch, wire, mounted >>
authVars == << store, user, loading, listeners, boot, term, logoutOp, loginOp,
               refreshOp, auxOp, authOps >>
vars == << cache, stale, server, nextId, fetch, wire, mounted, mut, now,
           store, user, loading, listeners, boot, term, logoutOp, loginOp,
           refreshOp, auxOp, authOps >>

(* ------------------------- pure functions ------------------------------ *)
RECURSIVE MapSeqOldWins(_, _, _)
\* MapSeq with the merge the other way round: { ...data, ...item }
MapSeqOldWins(s, id, title) ==
  IF s = << >> THEN << >>
  ELSE << Head(s) >> \o MapSeqOldWins(Tail(s), id, title)

RECURSIVE MapSeq(_, _, _)
\* old.map(item => item.id === id ? { ...item, ...data } : item)
MapSeq(s, id, title) ==
  IF s = << >> THEN << >>
  ELSE << IF Head(s).id = id THEN [Head(s) EXCEPT !.title = title] ELSE Head(s) >>
       \o MapSeq(Tail(s), id, title)

RECURSIVE FilterSeqCut(_, _)
\* FilterSeq that drops the matching entity and all that follow it
FilterSeqCut(s, id) ==
  IF s = << >> THEN << >>
  ELSE IF Head(s).id = id THEN << >> ELSE << Head(s) >> \o FilterSeqCut(Tail(s), id)

RECURSIVE FilterSeq(_, _)
\* old.filter(item => item.id !== id)
FilterSeq(s, id) ==
  IF s = << >> THEN << >>
  ELSE (IF Head(s).id # id THEN << Head(s) >> ELSE << >>) \o FilterSeq(Tail(s), id)

\* the default parameter of the updaters: (old = []) => ...
OrEmpty(entry) == IF entry = None THEN << >> ELSE entry[1]

TempId(t) == TempBase + t

\* Predicted with a create that puts the new entity first
PredictedCreateFirst(kind, old, id, title, t) ==
  CASE kind = "create" -> << [id |-> TempId(t), title |-> title] >> \o old
    [] kind = "update" -> MapSeq(old, id, title)
    [] kind = "remove" -> FilterSeq(old, id)

\* the three updaters handed to setQueryData
Predicted(kind, old, id, title, t) ==
  CASE kind = "create" -> Append(old, [id |-> TempId(t), title |-> title])
    [] kind = "update" -> MapSeq(old, id, title)
    [] kind = "remove" -> FilterSeq(old, id)

\* the request of the three mutationFn: api.post(endpoint, data),
\* api.put(`${endpoint}/${id}/`, data), api.delete(`${endpoint}/${id}/`);
\* the URL is the endpoint, then the id if any, then the trailing slash if any
Request(kind, k, id) ==
  CASE kind = "create" -> [method |-> "POST", endpoint |-> k, id |-> None, slash |-> FALSE]
    [] kind = "update" -> [method |-> "PUT", endpoint |-> k, id |-> Some(id), slash |-> TRUE]
    [] kind = "remove" -> [method |-> "DELETE", endpoint |-> k, id |-> Some(id), slash |-> TRUE]

\* what the remote API does with a successful POST / PUT / DELETE
ServerApply(kind, coll, id, title, fresh) ==
  CASE kind = "create" -> Append(coll, [id |-> fresh, title |-> title])
    [] kind = "update" -> MapSeq(coll, id, title)
    [] kind = "remove" -> FilterSeq(coll, id)

IdleFetch == [st |-> "idle", data |-> << >>, err |-> FALSE]
\* st, data: the read of the key that was superseded last, while its request is
\* on the wire ("off": superseded reads are not followed); seen: the payload the
\* last completed read wrote; again: that read wrote the payload of the one before
NoWire == [st |-> "off", data |-> << >>, seen |-> None, again |-> FALSE]
IdleWire == [NoWire EXCEPT !.st = "none"]
\* react-query cancels a fetch by dropping its result: the request of a queryFn
\* that does not take the abort signal stays on the wire
Supersede(w, f) ==
  IF w.st = "off" \/ f.st = "idle" THEN w ELSE [w EXCEPT !.st = f.st, !.data = f.data]
Delivered(w, payload) ==
  IF w.st = "off" THEN w
  ELSE [w EXCEPT !.seen = Some(payload), !.again = (w.seen = Some(payload))]
IdleMut == [phase |-> "idle", kind |-> "create", key |-> "posts", id |-> 2,
            title |-> "N", previous |-> None,
            outcome |-> "none",
            \* the requests the mutation has issued so far
            sent |-> << >>,
            \* history, read by the properties only
            prevStale |-> FALSE, before |-> None, applied |-> << >>, overlapped |-> FALSE,
            changed |-> FALSE, joined |-> {}, okSeen |-> {}]

IdleBoot == [pc |-> "idle", val |-> None]
\* keys: history, the cache keys present when the purge was asked for
\* nth: history, the rank of the callback in the emitLogout() that invoked it
IdleTerm == [pc |-> "idle", keys |-> {}, nth |-> 0]
\* sent: the number of POSTs issued; toast: handleAuthError has shown the error
IdleLogin == [pc |-> "idle", data |-> None, sent |-> 0, toast |-> FALSE,
              \* history, read by the properties only
              wrote |-> {}, keys |-> {}]
\* tok: the access token the request interceptor found for GET /auth/me/
IdleRefresh == [pc |-> "idle", data |-> None, tok |-> None]
\* forgotPassword, verifyResetOtp, resetPassword, sendOtp, verifyOtp, resendOtp,
\* changePassword: each a POST to its own path
AuxKinds == {"forgot-password", "verify-reset-otp", "reset-password", "send-otp",
             "verify-otp", "resend-otp", "change-password"}
IdleAux == [pc |-> "idle", kind |-> "none", sent |-> 0, toast |-> FALSE]

Active(m) == mut[m].phase \notin {"idle", "done"}
ActiveOn(k) == {m \in MutIds : Active(m) /\ mut[m].key = k}

Init ==
  /\ cache = [k \in Keys |-> None]
  /\ stale = [k \in Keys |-> FALSE]
  /\ server = InitServer
  /\ nextId = FirstServerId
  /\ fetch = [k \in Keys |-> IdleFetch]
  /\ wire = [k \in Keys |-> NoWire]
  /\ mounted = [k \in Keys |-> "no"]
  /\ mut = [m \in MutIds |-> IdleMut]
  /\ now = 0
  /\ store \in PersistedStores
  /\ user = [c \in Consumers |-> None]
  /\ loading = [c \in Consumers |-> TRUE]
  /\ listeners = << >>
  /\ boot = [c \in Consumers |-> IdleBoot]
  /\ term = [c \in Consumers |-> IdleTerm]
  /\ logoutOp = [c \in Consumers |-> IdleTerm]
  /\ loginOp = [c \in Consumers |-> IdleLogin]
  /\ refreshOp = [c \in Consumers |-> IdleRefresh]
  /\ auxOp = [c \in Consumers |-> IdleAux]
  /\ authOps = 0

(* ---------------------------- list query ------------------------------- *)
\* useQuery({ queryKey, queryFn }) mounts (or re-attaches after the query was
\* removed from the cache) and starts the queryFn unless a fetch is running
MountList(k) ==
  /\ mounted[k] # "active"
  /\ mounted' = [mounted EXCEPT ![k] = "active"]
  /\ fetch' = [fetch EXCEPT ![k] =
                 IF @.st = "idle" THEN [st |-> "sent", data |-> << >>, err |-> @.err]
                 ELSE @]
  /\ UNCHANGED << cache, stale, server, nextId, wire, mut, now, authVars >>

\* the remote API answers GET endpoint with its collection of that moment
FetchRespond(k) ==
  /\ fetch[k].st = "sent"
  /\ fetch' = [fetch EXCEPT ![k] = [@ EXCEPT !.st = "resp", !.data = server[k]]]
  /\ UNCHANGED << cache, stale, server, nextId, wire, mounted, mut, now, authVars >>

\* FetchDeliver that adds the payload to the entry it finds
FetchDeliverAppends(k) ==
  /\ fetch[k].st = "resp"
  /\ cache' = [cache EXCEPT ![k] = Some(OrEmpty(@) \o fetch[k].data)]
  /\ stale' = [stale EXCEPT ![k] = FALSE]
  /\ fetch' = [fetch EXCEPT ![k] = IdleFetch]
  /\ wire' = [wire EXCEPT ![k] = Delivered(@, fetch[k].data)]
  /\ UNCHANGED << server, nextId, mounted, mut, now, authVars >>

\* queryFn returns res.data: the query data is overwritten with the payload
FetchDeliver(k) ==
  /\ fetch[k].st = "resp"
  /\ cache' = [cache EXCEPT ![k] = Some(fetch[k].data)]
  /\ stale' = [stale EXCEPT ![k] = FALSE]
  /\ fetch' = [fetch EXCEPT ![k] = IdleFetch]
  /\ wire' = [wire EXCEPT ![k] = Delivered(@, fetch[k].data)]
  /\ UNCHANGED << server, nextId, mounted, mut, now, authVars >>

\* api.get rejects: the query keeps its data and records the error
FetchFail(k) ==
  /\ fetch[k].st = "sent"
  /\ fetch' = [fetch EXCEPT ![k] = [IdleFetch EXCEPT !.err = TRUE]]
  /\ UNCHANGED << cache, stale, server, nextId, wire, mounted, mut, now, authVars >>

\* queryClient.cancelQueries({ queryKey }): a running fetch is dropped
CancelFetch(f) == [IdleFetch EXCEPT !.err = f.err]

\* Invalidate that leaves a running fetch running
InvalidateJoins(k) ==
  IF mounted[k] # "active" THEN fetch[k]
  ELSE IF fetch[k].st # "idle" THEN fetch[k]
  ELSE [st |-> "sent", data |-> << >>, err |-> fetch[k].err]

\* queryClient.invalidateQueries({ queryKey }): an active query refetches; a
\* running fetch of a query that has data is cancelled and restarted
Invalidate(k) ==
  IF mounted[k] # "active" THEN fetch[k]
  ELSE IF fetch[k].st # "idle" /\ cache[k] = None THEN fetch[k]
  ELSE [st |-> "sent", data |-> << >>, err |-> fetch[k].err]

\* the fetch invalidateQueries cancels is superseded by the one it starts
InvalidateWire(k) ==
  IF mounted[k] = "active" /\ cache[k] # None THEN Supersede(wire[k], fetch[k])
  ELSE wire[k]

\* the answer of a superseded read arrives
WireRespond(k) ==
  /\ wire[k].st = "sent"
  /\ wire' = [wire EXCEPT ![k] = [@ EXCEPT !.st = "resp", !.data = server[k]]]
  /\ UNCHANGED << cache, stale, server, nextId, fetch, mounted, mut, now, authVars >>

\* WireDrop that writes the payload, as a fetch that was not cancelled does
WireDropWrites(k) ==
  /\ wire[k].st = "resp"
  /\ cache' = [cache EXCEPT ![k] = Some(wire[k].data)]
  /\ wire' = [wire EXCEPT ![k] = [@ EXCEPT !.st = "none", !.data = << >>]]
  /\ UNCHANGED << stale, server, nextId, fetch, mounted, mut, now, authVars >>

\* the superseded read completes: its payload is dropped
WireDrop(k) ==
  /\ wire[k].st = "resp"
  /\ wire' = [wire EXCEPT ![k] = [@ EXCEPT !.st = "none", !.data = << >>]]
  /\ UNCHANGED << cache, stale, server, nextId, fetch, mounted, mut, now, authVars >>

(* ---------------------------- mutations -------------------------------- *)
\* Start without cancelQueries
StartNoCancel(m, kind, k, id, title) ==
  /\ mut[m].phase = "idle"
  /\ \A n \in MutIds : n < m => mut[n].phase # "idle"
  /\ mounted[k] # "no"
  /\ kind = "create" => id = 2
  /\ Cardinality({n \in MutIds : Active(n)}) <= 1
  /\ mut' = [n \in MutIds |->
               IF n = m
               THEN [IdleMut EXCEPT !.phase = "cancel", !.kind = kind, !.key = k,
                                    !.id = id, !.title = title,
                                    !.before = cache[k],
                                    !.overlapped = (ActiveOn(k) # {})]
               ELSE IF Active(n) /\ mut[n].key = k
                    THEN [mut[n] EXCEPT !.overlapped = TRUE,
                                        !.joined = IF mut[n].phase = "remote"
                                                   THEN @ \cup {m} ELSE @]
                    ELSE mut[n]]
  /\ UNCHANGED << cache, stale, server, nextId, fetch, wire, mounted, now, authVars >>

\* mutateAsync(variables): onMutate runs up to `await cancelQueries`
Start(m, kind, k, id, title) ==
  /\ mut[m].phase = "idle"
  /\ \A n \in MutIds : n < m => mut[n].phase # "idle"
  /\ mounted[k] # "no"
  /\ kind = "create" => id = 2
  \* concurrency is explored pairwise: at most two mutations overlap
  /\ Cardinality({n \in MutIds : Active(n)}) <= 1
  /\ mut' = [n \in MutIds |->
               IF n = m
               THEN [IdleMut EXCEPT !.phase = "cancel", !.kind = kind, !.key = k,
                                    !.id = id, !.title = title,
                                    !.before = cache[k],
                                    !.overlapped = (ActiveOn(k) # {})]
               ELSE IF Active(n) /\ mut[n].key = k
                    THEN [mut[n] EXCEPT !.overlapped = TRUE,
                                        !.joined = IF mut[n].phase = "remote"
                                                   THEN @ \cup {m} ELSE @]
                    ELSE mut[n]]
  /\ fetch' = [fetch EXCEPT ![k] = CancelFetch(@)]
  /\ wire' = [wire EXCEPT ![k] = Supersede(@, fetch[k])]
  /\ UNCHANGED << cache, stale, server, nextId, mounted, now, authVars >>

\* Apply that issues mutationFn without the optimistic write
ApplyNoWrite(m) ==
  /\ mut[m].phase = "cancel"
  /\ LET k == mut[m].key
         new == Predicted(mut[m].kind, OrEmpty(cache[k]), mut[m].id, mut[m].title, now)
     IN mut' = [mut EXCEPT ![m] = [@ EXCEPT !.phase = "remote",
                                            !.previous = cache[k],
                                            !.prevStale = stale[k],
                                            !.applied = new,
                                            !.changed = (new # OrEmpty(cache[k])),
                                            !.sent = Append(@, Request(mut[m].kind, k,
                                                                       mut[m].id))]]
  /\ UNCHANGED << cache, stale, server, nextId, fetch, wire, mounted, now, authVars >>

\* onMutate after the await: snapshot, optimistic write, then mutationFn is issued
Apply(m) ==
  /\ mut[m].phase = "cancel"
  /\ LET k == mut[m].key
         new == Predicted(mut[m].kind, OrEmpty(cache[k]), mut[m].id, mut[m].title, now)
     IN /\ cache' = [cache EXCEPT ![k] = Some(new)]
        /\ stale' = stale
        /\ mut' = [mut EXCEPT ![m] = [@ EXCEPT !.phase = "remote",
                                               !.previous = cache[k],
                                               !.prevStale = stale[k],
                                               !.applied = new,
                                               !.changed = (new # OrEmpty(cache[k])),
                                               !.sent = Append(@, Request(mut[m].kind, k,
                                                                          mut[m].id))]]
  /\ UNCHANGED << server, nextId, fetch, wire, mounted, now, authVars >>

\* the remote call succeeds: the remote API has applied the change
RemoteOk(m) ==
  /\ mut[m].phase = "remote"
  /\ LET k == mut[m].key
     IN server' = [server EXCEPT ![k] =
                     ServerApply(mut[m].kind, @, mut[m].id, mut[m].title, nextId)]
  /\ nextId' = IF mut[m].kind = "create" THEN nextId + 1 ELSE nextId
  /\ mut' = [mut EXCEPT ![m] = [@ EXCEPT !.phase = "ok", !.outcome = "ok"]]
  /\ UNCHANGED << cache, stale, fetch, wire, mounted, now, authVars >>

\* RemoteFail with one retry of the request (retry: 1)
RemoteFailRetry(m) ==
  /\ mut[m].phase = "remote"
  /\ mut' = [mut EXCEPT ![m] =
               IF Len(@.sent) < 2
               THEN [@ EXCEPT !.sent = Append(@, Request(mut[m].kind, mut[m].key, mut[m].id))]
               ELSE [@ EXCEPT !.phase = "err", !.outcome = "err",
                              !.okSeen = {x \in mut[m].joined : /\ mut[x].outcome = "ok"
                                                                /\ mut[x].changed}]]
  /\ UNCHANGED << cache, stale, server, nextId, fetch, wire, mounted, now, authVars >>

\* the remote call fails (network, 4xx/5xx): nothing changes on the remote API; the
\* mutation is not retried (no `retry` option: the mutations' default is 0)
RemoteFail(m) ==
  /\ mut[m].phase = "remote"
  /\ mut' = [mut EXCEPT ![m] =
               [@ EXCEPT !.phase = "err", !.outcome = "err",
                         !.okSeen = {x \in mut[m].joined : /\ mut[x].outcome = "ok"
                                                           /\ mut[x].changed}]]
  /\ UNCHANGED << cache, stale, server, nextId, fetch, wire, mounted, now, authVars >>

\* OnError without the restore of ctx.previous
OnErrorNoRestore(m) ==
  /\ mut[m].phase = "err"
  /\ mut' = [mut EXCEPT ![m] = [@ EXCEPT !.phase = "rolled"]]
  /\ UNCHANGED << cache, stale, server, nextId, fetch, wire, mounted, now, authVars >>

\* onError: if (ctx?.previous) setQueryData(queryKey, ctx.previous)
OnError(m) ==
  /\ mut[m].phase = "err"
  /\ LET k == mut[m].key
     IN IF mut[m].previous # None
        THEN /\ cache' = [cache EXCEPT ![k] = mut[m].previous]
             /\ stale' = [stale EXCEPT ![k] = mut[m].prevStale]
        ELSE UNCHANGED << cache, stale >>
  /\ mut' = [mut EXCEPT ![m] = [@ EXCEPT !.phase = "rolled"]]
  /\ UNCHANGED << server, nextId, fetch, wire, mounted, now, authVars >>

\* OnSettled without invalidateQueries
OnSettledNoInvalidate(m) ==
  /\ mut[m].phase \in {"ok", "rolled"}
  /\ mut' = [mut EXCEPT ![m] = [IdleMut EXCEPT !.phase = "done", !.kind = mut[m].kind,
                                               !.key = mut[m].key,
                                               !.outcome = mut[m].outcome,
                                               !.sent = mut[m].sent,
                                               !.overlapped = mut[m].overlapped,
                                               !.changed = mut[m].changed]]
  /\ UNCHANGED << cache, stale, server, nextId, fetch, wire, mounted, now, authVars >>

\* OnSettled that invalidates after a success only
OnSettledSuccessOnly(m) ==
  /\ mut[m].phase \in {"ok", "rolled"}
  /\ fetch' = [fetch EXCEPT ![mut[m].key] =
                 IF mut[m].outcome = "ok" THEN Invalidate(mut[m].key) ELSE @]
  /\ mut' = [mut EXCEPT ![m] = [IdleMut EXCEPT !.phase = "done", !.kind = mut[m].kind,
                                               !.key = mut[m].key,
                                               !.outcome = mut[m].outcome,
                                               !.sent = mut[m].sent,
                                               !.overlapped = mut[m].overlapped,
                                               !.changed = mut[m].changed]]
  /\ wire' = [wire EXCEPT ![mut[m].key] =
                IF mut[m].outcome = "ok" THEN InvalidateWire(mut[m].key) ELSE @]
  /\ UNCHANGED << cache, stale, server, nextId, mounted, now, authVars >>

\* onSettled: invalidateQueries({ queryKey }); then mutateAsync's promise settles:
\* it resolves with the response or rejects with the error (outcome)
OnSettled(m) ==
  /\ mut[m].phase \in {"ok", "rolled"}
  /\ fetch' = [fetch EXCEPT ![mut[m].key] = Invalidate(mut[m].key)]
  \* the mutation's context (ctx.previous) is dropped with the mutation
  /\ mut' = [mut EXCEPT ![m] = [IdleMut EXCEPT !.phase = "done", !.kind = mut[m].kind,
                                               !.key = mut[m].key,
                                               !.outcome = mut[m].outcome,
                                               !.sent = mut[m].sent,
                                               !.overlapped = mut[m].overlapped,
                                               !.changed = mut[m].changed]]
  /\ wire' = [wire EXCEPT ![mut[m].key] = InvalidateWire(mut[m].key)]
  /\ UNCHANGED << cache, stale, server, nextId, mounted, now, authVars >>

\* Date.now() advances; only the onMutate of a create reads it, after its
\* await, so the clock is followed at the moments a create is about to read it
Tick ==
  /\ now < MaxNow
  /\ \E m \in MutIds : mut[m].phase = "cancel" /\ mut[m].kind = "create"
  /\ now' = now + 1
  /\ UNCHANGED << cache, stale, server, nextId, fetch, wire, mounted, mut, authVars >>

(* ------------------------- session event bus --------------------------- *)
Range(s) == {s[i] : i \in DOMAIN s}

(* ----------------------- role and permission helpers ------------------- *)
\* the arguments the screens pass to the helpers
RoleNames == {"admin", "user"}
PermNames == {"read", "write", "delete"}
PermLists == {<< >>} \cup {<< p >> : p \in PermNames}
               \cup {<< p, q >> : p \in PermNames, q \in PermNames}

\* const role = user?.role ?? null
Role(u) == IF u = None THEN None ELSE u[1].role
\* const permissions = user?.permissions ?? []
Permissions(u) == IF u = None \/ u[1].permissions = None THEN << >>
                  ELSE u[1].permissions[1]
\* Array.prototype.includes
Includes(s, x) == \E i \in DOMAIN s : s[i] = x

\* HasRole with a hierarchy: an admin has every role
HasRoleAdminAll(u, r) == Role(u) = Some(r) \/ Role(u) = Some("admin")
\* hasRole = (r) => role === r
HasRole(u, r) == Role(u) = Some(r)

\* hasPermission = (perm) => permissions.includes(perm)
HasPermission(u, perm) == Includes(Permissions(u), perm)

\* HasAnyPermission with every in the place of some
HasEveryPermission(u, perms) ==
  \A i \in DOMAIN perms : Includes(Permissions(u), perms[i])
\* hasAnyPermission = (perms) => perms.some((p) => permissions.includes(p))
HasAnyPermission(u, perms) ==
  \E i \in DOMAIN perms : Includes(Permissions(u), perms[i])
Present == {k \in Keys : cache[k] # None}

\* queryClient.clear(): every query is removed (its fetch with it); the
\* observers of the removed queries stay behind, detached from the cache
ClearedFetch == [k \in Keys |-> IdleFetch]
ClearedMounted == [k \in Keys |-> IF mounted[k] = "active" THEN "detached" ELSE mounted[k]]
QueryClientClear ==
  /\ cache' = [k \in Keys |-> None]
  /\ stale' = [k \in Keys |-> FALSE]
  /\ fetch' = ClearedFetch
  /\ wire' = [k \in Keys |-> Supersede(wire[k], fetch[k])]
  /\ mounted' = ClearedMounted
  \* history: the snapshots taken so far are of the session that ends here
  /\ mut' = [m \in MutIds |->
               IF mut[m].phase \in {"remote", "ok", "err"} /\ mut[m].previous # None
               THEN [mut[m] EXCEPT !.prevStale = TRUE] ELSE mut[m]]

InProgress(op) == op.pc \notin {"idle", "done", "failed"}

(* --------------------------- session manager --------------------------- *)
\* listeners.push(fn)
Push(ls, fn) == Append(ls, fn)

\* Without that removes by the position the callback had when it subscribed
WithoutAt(ls, fn) ==
  IF fn \in DOMAIN ls THEN SubSeq(ls, 1, fn - 1) \o SubSeq(ls, fn + 1, Len(ls)) ELSE ls

\* listeners.filter(l => l !== fn)
Without(ls, fn) == SelectSeq(ls, LAMBDA l : l # fn)

\* a component calls useAuth(): both effects run; the bootstrap effect issues
\* AsyncStorage.getItem(USER_KEY), the other subscribes to authEvents
MountAuth(c) ==
  /\ boot[c].pc = "idle"
  /\ \A d \in Consumers : d < c => boot[d].pc # "idle"
  /\ boot' = [boot EXCEPT ![c] = [pc |-> "reading", val |-> None]]
  /\ listeners' = Push(listeners, c)
  /\ UNCHANGED << crudVars, queryVars, mut, store, user, loading, term, logoutOp,
                  loginOp, refreshOp, authOps, auxOp >>

\* AsyncStorage reads the stored user
BootRead(c) ==
  /\ boot[c].pc = "reading"
  /\ boot' = [boot EXCEPT ![c] = [pc |-> "read", val |-> store.user]]
  /\ UNCHANGED << crudVars, queryVars, mut, store, user, loading, listeners, term,
                  logoutOp, loginOp, refreshOp, authOps, auxOp >>

\* AsyncStorage.getItem rejects: the async function of the effect ends there,
\* its rejection unhandled
BootReadFail(c) ==
  /\ boot[c].pc = "reading"
  /\ boot' = [boot EXCEPT ![c] = [pc |-> "failed", val |-> None]]
  /\ UNCHANGED << crudVars, queryVars, mut, store, user, loading, listeners, term,
                  logoutOp, loginOp, refreshOp, auxOp, authOps >>

\* JSON.parse(storedUser) throws: the async function of the effect ends there,
\* before setLoading(false)
BootThrow(c) ==
  /\ boot[c].pc = "read"
  /\ boot[c].val # None /\ ~Parses(boot[c].val[1])
  /\ boot' = [boot EXCEPT ![c] = [pc |-> "failed", val |-> None]]
  /\ UNCHANGED << crudVars, queryVars, mut, store, user, loading, listeners, term,
                  logoutOp, loginOp, refreshOp, auxOp, authOps >>

\* BootFinish that returns early when nothing is stored
BootFinishEarlyReturn(c) ==
  /\ boot[c].pc = "read"
  /\ boot[c].val # None => Parses(boot[c].val[1])
  /\ user' = [user EXCEPT ![c] = IF boot[c].val # None
                                 THEN Some(Parse(boot[c].val[1])) ELSE @]
  /\ loading' = [loading EXCEPT ![c] = IF boot[c].val # None THEN FALSE ELSE @]
  /\ boot' = [boot EXCEPT ![c] = [pc |-> "done", val |-> None]]
  /\ UNCHANGED << crudVars, queryVars, mut, store, listeners, term, logoutOp,
                  loginOp, refreshOp, auxOp, authOps >>

\* if (storedUser) setUser(JSON.parse(storedUser)); setLoading(false)
BootFinish(c) ==
  /\ boot[c].pc = "read"
  /\ boot[c].val # None => Parses(boot[c].val[1])
  /\ user' = [user EXCEPT ![c] = IF boot[c].val # None
                                 THEN Some(Parse(boot[c].val[1])) ELSE @]
  /\ loading' = [loading EXCEPT ![c] = FALSE]
  /\ boot' = [boot EXCEPT ![c] = [pc |-> "done", val |-> None]]
  /\ UNCHANGED << crudVars, queryVars, mut, store, listeners, term, logoutOp,
                  loginOp, refreshOp, authOps, auxOp >>

\* ForEach that stops after the first listener
ForFirst(ls, t, n) ==
  IF ls = << >> THEN t
  ELSE [t EXCEPT ![Head(ls)] = [pc |-> "clearing", keys |-> Present, nth |-> n]]

RECURSIVE ForEach(_, _, _)
\* listeners.forEach(l => l()): the callbacks are invoked one after the other,
\* in the order of the array; each runs up to its `await clearAuth()`
ForEach(ls, t, n) ==
  IF ls = << >> THEN t
  ELSE ForEach(Tail(ls),
               [t EXCEPT ![Head(ls)] = [pc |-> "clearing", keys |-> Present, nth |-> n]],
               n + 1)

\* the function subscribe() returned is called: the effect's cleanup when the
\* component unmounts, or any holder of the function, any number of times
Unsubscribe(c) ==
  /\ boot[c].pc # "idle"
  /\ listeners' = Without(listeners, c)
  /\ UNCHANGED << crudVars, queryVars, mut, store, user, loading, boot, term, logoutOp,
                  loginOp, refreshOp, authOps, auxOp >>

\* authEvents.emitLogout(): listeners.forEach(l => l()); it returns when every
\* callback has reached its first await
EmitLogout ==
  /\ authOps < MaxAuthOps
  /\ \A c \in Consumers : ~InProgress(term[c])
  /\ authOps' = authOps + 1
  /\ term' = ForEach(listeners, term, 1)
  /\ UNCHANGED << crudVars, queryVars, mut, store, user, loading, listeners, boot,
                  logoutOp, loginOp, refreshOp, auxOp >>

\* clearAuth(): AsyncStorage.multiRemove removes the three items
TermCleared(c) ==
  /\ term[c].pc = "clearing"
  /\ store' = EmptyStore
  /\ term' = [term EXCEPT ![c] = [@ EXCEPT !.pc = "cont"]]
  /\ UNCHANGED << crudVars, queryVars, mut, user, loading, listeners, boot, logoutOp,
                  loginOp, refreshOp, authOps, auxOp >>

\* AsyncStorage.multiRemove rejects: the callback ends at `await clearAuth()`
TermClearFail(c) ==
  /\ term[c].pc = "clearing"
  /\ term' = [term EXCEPT ![c] = [IdleTerm EXCEPT !.pc = "failed"]]
  /\ UNCHANGED << crudVars, queryVars, mut, store, user, loading, listeners, boot,
                  logoutOp, loginOp, refreshOp, authOps, auxOp >>

\* setUser(null); queryClient.clear()
TermFinish(c) ==
  /\ term[c].pc = "cont"
  /\ user' = [user EXCEPT ![c] = None]
  /\ QueryClientClear
  /\ term' = [term EXCEPT ![c] = [IdleTerm EXCEPT !.pc = "done"]]
  /\ UNCHANGED << crudVars, store, loading, listeners, boot, logoutOp, loginOp,
                  refreshOp, authOps, auxOp >>

\* logout(): runs up to `await clearAuth()`
LogoutCall(c) ==
  /\ boot[c].pc # "idle"
  /\ ~InProgress(logoutOp[c])
  /\ authOps < MaxAuthOps
  /\ authOps' = authOps + 1
  /\ logoutOp' = [logoutOp EXCEPT ![c] = [IdleTerm EXCEPT !.pc = "clearing",
                                                          !.keys = Present]]
  /\ UNCHANGED << crudVars, queryVars, mut, store, user, loading, listeners, boot,
                  term, loginOp, refreshOp, auxOp >>

LogoutCleared(c) ==
  /\ logoutOp[c].pc = "clearing"
  /\ store' = EmptyStore
  /\ logoutOp' = [logoutOp EXCEPT ![c] = [@ EXCEPT !.pc = "cont"]]
  /\ UNCHANGED << crudVars, queryVars, mut, user, loading, listeners, boot, term,
                  loginOp, refreshOp, authOps, auxOp >>

LogoutClearFail(c) ==
  /\ logoutOp[c].pc = "clearing"
  /\ logoutOp' = [logoutOp EXCEPT ![c] = [IdleTerm EXCEPT !.pc = "failed"]]
  /\ UNCHANGED << crudVars, queryVars, mut, store, user, loading, listeners, boot,
                  term, loginOp, refreshOp, authOps, auxOp >>

LogoutFinish(c) ==
  /\ logoutOp[c].pc = "cont"
  /\ user' = [user EXCEPT ![c] = None]
  /\ QueryClientClear
  /\ logoutOp' = [logoutOp EXCEPT ![c] = [IdleTerm EXCEPT !.pc = "done"]]
  /\ UNCHANGED << crudVars, store, loading, listeners, boot, term, loginOp,
                  refreshOp, authOps, auxOp >>

\* login.mutateAsync(payload) / register.mutateAsync(payload): POST is issued
\* to /auth/login/ or /auth/register/; the two mutations have the same handlers
LoginCall(c, kind) ==
  /\ kind \in AuthKinds
  /\ boot[c].pc # "idle"
  /\ ~InProgress(loginOp[c])
  /\ authOps < MaxAuthOps
  /\ authOps' = authOps + 1
  /\ loginOp' = [loginOp EXCEPT ![c] = [IdleLogin EXCEPT !.pc = "remote", !.sent = 1,
                                                        !.keys = Present]]
  /\ UNCHANGED << crudVars, queryVars, mut, store, user, loading, listeners, boot,
                  term, logoutOp, refreshOp, auxOp >>

\* LoginOk with setUser(data.user) ahead of `await saveAuth(data)`
LoginOkPublishFirst(c, data) ==
  /\ loginOp[c].pc = "remote"
  /\ user' = [user EXCEPT ![c] = Some(data.user)]
  /\ loginOp' = [loginOp EXCEPT ![c] = [@ EXCEPT !.pc = "saveAccess", !.data = Some(data)]]
  /\ UNCHANGED << crudVars, queryVars, mut, store, loading, listeners, boot,
                  term, logoutOp, refreshOp, authOps, auxOp >>

\* the POST answers { access, refresh?, user }: onSuccess starts
LoginOk(c, data) ==
  /\ loginOp[c].pc = "remote"
  /\ loginOp' = [loginOp EXCEPT ![c] = [@ EXCEPT !.pc = "saveAccess", !.data = Some(data)]]
  /\ UNCHANGED << crudVars, queryVars, mut, store, user, loading, listeners, boot,
                  term, logoutOp, refreshOp, authOps, auxOp >>

\* the POST fails: the mutation does not retry; onError: handleAuthError shows
\* a toast and mutateAsync rejects
LoginFail(c) ==
  /\ loginOp[c].pc = "remote"
  /\ loginOp' = [loginOp EXCEPT ![c] = [IdleLogin EXCEPT !.pc = "failed",
                                                        !.sent = loginOp[c].sent,
                                                        !.toast = TRUE]]
  /\ UNCHANGED << crudVars, queryVars, mut, store, user, loading, listeners, boot,
                  term, logoutOp, refreshOp, authOps, auxOp >>

\* saveAuth: await AsyncStorage.setItem(ACCESS_TOKEN_KEY, data.access);
\* if (data.refresh) the refresh token is written next, else the user
SaveAccess(c) ==
  /\ loginOp[c].pc = "saveAccess"
  /\ store' = [store EXCEPT !.access = Some(loginOp[c].data[1].access)]
  /\ loginOp' = [loginOp EXCEPT ![c] =
                   [@ EXCEPT !.pc = IF loginOp[c].data[1].refresh # None
                                    THEN "saveRefresh" ELSE "saveUser",
                             !.wrote = @ \cup {"access"}]]
  /\ UNCHANGED << crudVars, queryVars, mut, user, loading, listeners, boot, term,
                  logoutOp, refreshOp, authOps, auxOp >>

\* saveAuth: await AsyncStorage.setItem(REFRESH_TOKEN_KEY, data.refresh)
SaveRefresh(c) ==
  /\ loginOp[c].pc = "saveRefresh"
  /\ store' = [store EXCEPT !.refresh = loginOp[c].data[1].refresh]
  /\ loginOp' = [loginOp EXCEPT ![c] = [@ EXCEPT !.pc = "saveUser",
                                                 !.wrote = @ \cup {"refresh"}]]
  /\ UNCHANGED << crudVars, queryVars, mut, user, loading, listeners, boot, term,
                  logoutOp, refreshOp, authOps, auxOp >>

\* saveAuth: await AsyncStorage.setItem(USER_KEY, JSON.stringify(data.user))
SaveUser(c) ==
  /\ loginOp[c].pc = "saveUser"
  /\ store' = [store EXCEPT !.user = Some(Stringify(loginOp[c].data[1].user))]
  /\ loginOp' = [loginOp EXCEPT ![c] = [@ EXCEPT !.pc = "publish",
                                                 !.wrote = @ \cup {"user"}]]
  /\ UNCHANGED << crudVars, queryVars, mut, user, loading, listeners, boot, term,
                  logoutOp, refreshOp, authOps, auxOp >>

\* an AsyncStorage.setItem of saveAuth rejects: onSuccess throws
SaveFail(c) ==
  /\ loginOp[c].pc \in {"saveAccess", "saveRefresh", "saveUser"}
  /\ loginOp' = [loginOp EXCEPT ![c] = [IdleLogin EXCEPT !.pc = "failed",
                                                        !.sent = loginOp[c].sent,
                                                        !.toast = TRUE]]
  /\ UNCHANGED << crudVars, queryVars, mut, store, user, loading, listeners, boot,
                  term, logoutOp, refreshOp, authOps, auxOp >>

\* Publish without queryClient.clear()
PublishNoClear(c) ==
  /\ loginOp[c].pc = "publish"
  /\ user' = [user EXCEPT ![c] = Some(loginOp[c].data[1].user)]
  /\ loginOp' = [loginOp EXCEPT ![c] = [IdleLogin EXCEPT !.pc = "done",
                                                        !.sent = loginOp[c].sent,
                                                        !.keys = loginOp[c].keys]]
  /\ UNCHANGED << crudVars, queryVars, mut, store, loading, listeners, boot, term,
                  logoutOp, refreshOp, authOps, auxOp >>

\* onSuccess after `await saveAuth(data)`: setUser(data.user); queryClient.clear()
Publish(c) ==
  /\ loginOp[c].pc = "publish"
  /\ user' = [user EXCEPT ![c] = Some(loginOp[c].data[1].user)]
  /\ QueryClientClear
  /\ loginOp' = [loginOp EXCEPT ![c] = [IdleLogin EXCEPT !.pc = "done",
                                                        !.sent = loginOp[c].sent,
                                                        !.keys = loginOp[c].keys]]
  /\ UNCHANGED << crudVars, store, loading, listeners, boot, term, logoutOp,
                  refreshOp, authOps, auxOp >>

\* refreshUser.mutateAsync(): GET /auth/me/ is issued
RefreshCall(c) ==
  /\ boot[c].pc # "idle"
  /\ ~InProgress(refreshOp[c])
  /\ authOps < MaxAuthOps
  /\ authOps' = authOps + 1
  /\ refreshOp' = [refreshOp EXCEPT ![c] = [pc |-> "remote", data |-> None,
                                            tok |-> store.access]]
  /\ UNCHANGED << crudVars, queryVars, mut, store, user, loading, listeners, boot,
                  term, logoutOp, loginOp, auxOp >>

\* GET /auth/me/ answers the profile, which it does for a request with a token
RefreshOk(c, profile) ==
  /\ refreshOp[c].pc = "remote"
  /\ refreshOp[c].tok # None
  /\ refreshOp' = [refreshOp EXCEPT ![c] = [pc |-> "save", data |-> Some(profile),
                                            tok |-> None]]
  /\ UNCHANGED << crudVars, queryVars, mut, store, user, loading, listeners, boot,
                  term, logoutOp, loginOp, authOps, auxOp >>

\* GET /auth/me/ fails: onError: handleAuthError shows a toast
RefreshFail(c) ==
  /\ refreshOp[c].pc = "remote"
  /\ refreshOp' = [refreshOp EXCEPT ![c] = [IdleRefresh EXCEPT !.pc = "failed"]]
  /\ UNCHANGED << crudVars, queryVars, mut, store, user, loading, listeners, boot,
                  term, logoutOp, loginOp, authOps, auxOp >>

\* await AsyncStorage.setItem(USER_KEY, JSON.stringify(data))
RefreshSave(c) ==
  /\ refreshOp[c].pc = "save"
  /\ store' = [store EXCEPT !.user = Some(Stringify(refreshOp[c].data[1]))]
  /\ refreshOp' = [refreshOp EXCEPT ![c] = [@ EXCEPT !.pc = "publish"]]
  /\ UNCHANGED << crudVars, queryVars, mut, user, loading, listeners, boot, term,
                  logoutOp, loginOp, authOps, auxOp >>

\* RefreshPublish that clears the query cache as login does
RefreshPublishClears(c) ==
  /\ refreshOp[c].pc = "publish"
  /\ user' = [user EXCEPT ![c] = refreshOp[c].data]
  /\ QueryClientClear
  /\ refreshOp' = [refreshOp EXCEPT ![c] = [IdleRefresh EXCEPT !.pc = "done"]]
  /\ UNCHANGED << crudVars, store, loading, listeners, boot, term, logoutOp, loginOp,
                  auxOp, authOps >>

\* setUser(data)
RefreshPublish(c) ==
  /\ refreshOp[c].pc = "publish"
  /\ user' = [user EXCEPT ![c] = refreshOp[c].data]
  /\ refreshOp' = [refreshOp EXCEPT ![c] = [IdleRefresh EXCEPT !.pc = "done"]]
  /\ UNCHANGED << crudVars, queryVars, mut, store, loading, listeners, boot, term,
                  logoutOp, loginOp, authOps, auxOp >>

\* forgotPassword.mutateAsync(payload), ..., changePassword.mutateAsync(payload):
\* the POST is issued
AuxCall(c, kind) ==
  /\ kind \in AuxKinds
  /\ boot[c].pc # "idle"
  /\ ~InProgress(auxOp[c])
  /\ authOps < MaxAuthOps
  /\ authOps' = authOps + 1
  /\ auxOp' = [auxOp EXCEPT ![c] = [IdleAux EXCEPT !.pc = "remote", !.kind = kind,
                                                    !.sent = 1]]
  /\ UNCHANGED << crudVars, queryVars, mut, store, user, loading, listeners, boot,
                  term, logoutOp, loginOp, refreshOp >>

\* the POST answers: the mutation has no onSuccess, mutateAsync resolves
AuxOk(c) ==
  /\ auxOp[c].pc = "remote"
  /\ auxOp' = [auxOp EXCEPT ![c] = [@ EXCEPT !.pc = "done"]]
  /\ UNCHANGED << crudVars, queryVars, mut, store, user, loading, listeners, boot,
                  term, logoutOp, loginOp, refreshOp, authOps >>

\* the POST fails: the mutation does not retry; onError: handleAuthError shows
\* a toast and mutateAsync rejects
AuxFail(c) ==
  /\ auxOp[c].pc = "remote"
  /\ auxOp' = [auxOp EXCEPT ![c] = [@ EXCEPT !.pc = "failed", !.toast = TRUE]]
  /\ UNCHANGED << crudVars, queryVars, mut, store, user, loading, listeners, boot,
                  term, logoutOp, loginOp, refreshOp, authOps >>

NextAuth ==
  \/ \E k \in Keys : MountList(k)
  \/ \E k \in Keys : FetchRespond(k)
  \/ \E k \in Keys : FetchDeliver(k)
  \/ \E c \in Callers : MountAuth(c)
  \/ \E c \in Callers : BootRead(c)
  \/ \E c \in Callers : BootFinish(c)
  \/ EmitLogout
  \/ \E c \in Consumers : TermCleared(c)
  \/ \E c \in Consumers : TermClearFail(c)
  \/ \E c \in Consumers : TermFinish(c)
  \/ \E c \in Callers : LogoutCall(c)
  \/ \E c \in Callers : LogoutCleared(c)
  \/ \E c \in Callers : LogoutClearFail(c)
  \/ \E c \in Callers : LogoutFinish(c)
  \/ \E c \in Callers, kind \in AuthKinds : LoginCall(c, kind)
  \/ \E c \in Callers, data \in Responses : LoginOk(c, data)
  \/ \E c \in Callers : LoginFail(c)
  \/ \E c \in Callers : SaveAccess(c)
  \/ \E c \in Callers : SaveRefresh(c)
  \/ \E c \in Callers : SaveUser(c)
  \/ \E c \in Callers : SaveFail(c)
  \/ \E c \in Callers : Publish(c)
  \/ \E c \in Callers : RefreshCall(c)
  \/ \E c \in Callers, p \in Profiles : RefreshOk(c, p)
  \/ \E c \in Callers : RefreshFail(c)
  \/ \E c \in Callers : RefreshSave(c)
  \/ \E c \in Callers : RefreshPublish(c)

SpecAuth == Init /\ [][NextAuth]_vars

\* login and registration of one session manager, with its bootstrap and its
\* logout, over the list queries of two screens
NextLogin ==
  \/ \E k \in Keys : MountList(k)
  \/ \E k \in Keys : FetchRespond(k)
  \/ \E k \in Keys : FetchDeliver(k)
  \/ \E c \in Callers : MountAuth(c)
  \/ \E c \in Callers : BootRead(c)
  \/ \E c \in Callers : BootFinish(c)
  \/ \E c \in Callers : LogoutCall(c)
  \/ \E c \in Callers : LogoutCleared(c)
  \/ \E c \in Callers : LogoutFinish(c)
  \/ \E c \in Callers, kind \in AuthKinds : LoginCall(c, kind)
  \/ \E c \in Callers, data \in Responses : LoginOk(c, data)
  \/ \E c \in Callers : LoginFail(c)
  \/ \E c \in Callers : SaveAccess(c)
  \/ \E c \in Callers : SaveRefresh(c)
  \/ \E c \in Callers : SaveUser(c)
  \/ \E c \in Callers : SaveFail(c)
  \/ \E c \in Callers : Publish(c)

SpecLogin == Init /\ [][NextLogin]_vars

NextCrud ==
  \/ \E k \in MutKeys : MountList(k)
  \/ \E k \in MutKeys : FetchRespond(k)
  \/ \E k \in MutKeys : FetchDeliver(k)
  \/ \E k \in MutKeys : FetchFail(k)
  \/ \E m \in MutIds, kind \in Kinds, k \in MutKeys, id \in Ids, t \in DataTitles :
       Start(m, kind, k, id, t)
  \/ \E m \in MutIds : Apply(m)
  \/ \E m \in MutIds : RemoteOk(m)
  \/ \E m \in MutIds : RemoteFail(m)
  \/ \E m \in MutIds : OnError(m)
  \/ \E m \in MutIds : OnSettled(m)
  \/ Tick

\* the engine alone, on a fresh installation
InitCrud == Init /\ store = EmptyStore
SpecCrud == InitCrud /\ [][NextCrud]_vars

\* the engine and one session manager: mutations in flight across session boundaries
\* one mutation is enough to be in flight across a session boundary
OneMut == {1}
NextSession ==
  \/ \E k \in MutKeys : MountList(k)
  \/ \E k \in MutKeys : FetchRespond(k)
  \/ \E k \in MutKeys : FetchDeliver(k)
  \/ \E m \in OneMut, kind \in Kinds, k \in MutKeys, id \in Ids, t \in DataTitles :
       Start(m, kind, k, id, t)
  \/ \E m \in OneMut : Apply(m)
  \/ \E m \in OneMut : RemoteOk(m)
  \/ \E m \in OneMut : RemoteFail(m)
  \/ \E m \in OneMut : OnError(m)
  \/ \E m \in OneMut : OnSettled(m)
  \/ \E c \in Callers : MountAuth(c)
  \/ EmitLogout
  \/ \E c \in Callers : TermCleared(c)
  \/ \E c \in Callers : TermFinish(c)
  \/ \E c \in Callers : LogoutCall(c)
  \/ \E c \in Callers : LogoutCleared(c)
  \/ \E c \in Callers : LogoutFinish(c)
  \/ \E c \in Callers, kind \in AuthKinds : LoginCall(c, kind)
  \/ \E c \in Callers, data \in Responses : LoginOk(c, data)
  \/ \E c \in Callers : SaveAccess(c)
  \/ \E c \in Callers : SaveRefresh(c)
  \/ \E c \in Callers : SaveUser(c)
  \/ \E c \in Callers : Publish(c)

SpecSession == InitCrud /\ [][NextSession]_vars

\* two useAuth() callers and the event bus, with a credential store that works
NextShared ==
  \/ \E k \in MutKeys : MountList(k)
  \/ \E k \in MutKeys : FetchRespond(k)
  \/ \E k \in MutKeys : FetchDeliver(k)
  \/ \E c \in Pair : MountAuth(c)
  \/ \E c \in Pair : BootRead(c)
  \/ \E c \in Pair : BootFinish(c)
  \/ EmitLogout
  \/ \E c \in Consumers : TermCleared(c)
  \/ \E c \in Consumers : TermFinish(c)
  \/ \E c \in Callers : LogoutCall(c)
  \/ \E c \in Callers : LogoutCleared(c)
  \/ \E c \in Callers : LogoutFinish(c)
  \/ \E c \in Callers, kind \in AuthKinds : LoginCall(c, kind)
  \/ \E c \in Callers, data \in Responses : LoginOk(c, data)
  \/ \E c \in Callers : SaveAccess(c)
  \/ \E c \in Callers : SaveRefresh(c)
  \/ \E c \in Callers : SaveUser(c)
  \/ \E c \in Callers : Publish(c)
  \/ \E c \in Callers : RefreshCall(c)
  \/ \E c \in Callers, p \in Profiles : RefreshOk(c, p)
  \/ \E c \in Callers : RefreshSave(c)
  \/ \E c \in Callers : RefreshPublish(c)

SpecShared == Init /\ [][NextShared]_vars

\* the event bus and its subscribers: three useAuth() callers that mount and
\* unmount while logout events are emitted
NextBus ==
  \/ \E c \in Consumers : MountAuth(c)
  \/ \E c \in Consumers : BootRead(c)
  \/ \E c \in Consumers : BootFinish(c)
  \/ \E c \in Consumers : Unsubscribe(c)
  \/ EmitLogout
  \/ \E c \in Consumers : TermCleared(c)
  \/ \E c \in Consumers : TermFinish(c)

SpecBus == Init /\ [][NextBus]_vars

\* one session manager with all its flows, and the list query of the screen
NextFlows ==
  \/ \E k \in MutKeys : MountList(k)
  \/ \E k \in MutKeys : FetchRespond(k)
  \/ \E k \in MutKeys : FetchDeliver(k)
  \/ \E c \in Callers : MountAuth(c)
  \/ \E c \in Callers : BootRead(c)
  \/ \E c \in Callers : BootFinish(c)
  \/ \E c \in Callers : LogoutCall(c)
  \/ \E c \in Callers : LogoutCleared(c)
  \/ \E c \in Callers : LogoutFinish(c)
  \/ \E c \in Callers, kind \in AuthKinds : LoginCall(c, kind)
  \/ \E c \in Callers, data \in Responses : LoginOk(c, data)
  \/ \E c \in Callers : LoginFail(c)
  \/ \E c \in Callers : SaveAccess(c)
  \/ \E c \in Callers : SaveRefresh(c)
  \/ \E c \in Callers : SaveUser(c)
  \/ \E c \in Callers : SaveFail(c)
  \/ \E c \in Callers : Publish(c)
  \/ \E c \in Callers : RefreshCall(c)
  \/ \E c \in Callers, p \in Profiles : RefreshOk(c, p)
  \/ \E c \in Callers : RefreshFail(c)
  \/ \E c \in Callers : RefreshSave(c)
  \/ \E c \in Callers : RefreshPublish(c)
  \/ \E c \in Callers, kind \in AuxKinds : AuxCall(c, kind)
  \/ \E c \in Callers : AuxOk(c)
  \/ \E c \in Callers : AuxFail(c)

SpecFlows == Init /\ [][NextFlows]_vars

\* the engine with the superseded reads followed to their completion
NextReads ==
  \/ \E k \in MutKeys : MountList(k)
  \/ \E k \in MutKeys : FetchRespond(k)
  \/ \E k \in MutKeys : FetchDeliver(k)
  \/ \E k \in MutKeys : WireRespond(k)
  \/ \E k \in MutKeys : WireDrop(k)
  \/ \E m \in MutIds, kind \in Kinds, k \in MutKeys, id \in Ids, t \in DataTitles :
       Start(m, kind, k, id, t)
  \/ \E m \in MutIds : Apply(m)
  \/ \E m \in MutIds : RemoteOk(m)
  \/ \E m \in MutIds : RemoteFail(m)
  \/ \E m \in MutIds : OnError(m)
  \/ \E m \in MutIds : OnSettled(m)

InitReads ==
  /\ cache = [k \in Keys |-> None]
  /\ stale = [k \in Keys |-> FALSE]
  /\ server = InitServer
  /\ nextId = FirstServerId
  /\ fetch = [k \in Keys |-> IdleFetch]
  /\ wire = [k \in Keys |-> IdleWire]
  /\ mounted = [k \in Keys |-> "no"]
  /\ mut = [m \in MutIds |-> IdleMut]
  /\ now = 0
  /\ store = EmptyStore
  /\ user = [c \in Consumers |-> None]
  /\ loading = [c \in Consumers |-> TRUE]
  /\ listeners = << >>
  /\ boot = [c \in Consumers |-> IdleBoot]
  /\ term = [c \in Consumers |-> IdleTerm]
  /\ logoutOp = [c \in Consumers |-> IdleTerm]
  /\ loginOp = [c \in Consumers |-> IdleLogin]
  /\ refreshOp = [c \in Consumers |-> IdleRefresh]
  /\ auxOp = [c \in Consumers |-> IdleAux]
  /\ authOps = 0

SpecReads == InitReads /\ [][NextReads]_vars

\* the bootstrap of the useAuth() callers over every credential store they may
\* find, a damaged one included, while the screen logs in and out
NextBoot ==
  \/ \E c \in Consumers : MountAuth(c)
  \/ \E c \in Consumers : BootRead(c)
  \/ \E c \in Consumers : BootReadFail(c)
  \/ \E c \in Consumers : BootFinish(c)
  \/ \E c \in Consumers : BootThrow(c)
  \/ \E c \in Callers : LogoutCall(c)
  \/ \E c \in Callers : LogoutCleared(c)
  \/ \E c \in Callers : LogoutFinish(c)

InitBoot ==
  /\ cache = [k \in Keys |-> None]
  /\ stale = [k \in Keys |-> FALSE]
  /\ server = InitServer
  /\ nextId = FirstServerId
  /\ fetch = [k \in Keys |-> IdleFetch]
  /\ wire = [k \in Keys |-> NoWire]
  /\ mounted = [k \in Keys |-> "no"]
  /\ mut = [m \in MutIds |-> IdleMut]
  /\ now = 0
  /\ store \in PersistedStores
              \cup {[access |-> Some("t0"), refresh |-> Some("r0"), user |-> Some(Corrupt)]}
  /\ user = [c \in Consumers |-> None]
  /\ loading = [c \in Consumers |-> TRUE]
  /\ listeners = << >>
  /\ boot = [c \in Consumers |-> IdleBoot]
  /\ term = [c \in Consumers |-> IdleTerm]
  /\ logoutOp = [c \in Consumers |-> IdleTerm]
  /\ loginOp = [c \in Consumers |-> IdleLogin]
  /\ refreshOp = [c \in Consumers |-> IdleRefresh]
  /\ auxOp = [c \in Consumers |-> IdleAux]
  /\ authOps = 0

\* AsyncStorage answers every getItem, with the item or with a rejection, and
\* the continuation of an await that has been answered runs
BootFairness ==
  \A c \in Consumers :
    /\ WF_vars(BootRead(c) \/ BootReadFail(c))
    /\ WF_vars(BootFinish(c) \/ BootThrow(c))

SpecBoot == InitBoot /\ [][NextBoot]_vars /\ BootFairness
(* ============================ properties =============================== *)
Collection(k) == OrEmpty(cache[k])
NoCache == \A k \in Keys : cache[k] = None
TermEnds(c) == InProgress(term[c]) /\ ~InProgress(term'[c])
LogoutEnds(c) == InProgress(logoutOp[c]) /\ ~InProgress(logoutOp'[c])
\* the storage writes saveAuth owes for a response
Required(d) == {"access", "user"} \cup (IF d.refresh # None THEN {"refresh"} ELSE {})

\* C1: a create, update or remove on a populated key that fails remotely, with
\* no other mutation on the key during its lifetime, leaves the entry, once
\* onError has run and before any reconciliation write, equal to the entry of
\* the moment the mutation was called (same elements, same order).
C1_RollbackRestores ==
  \A m \in MutIds :
    (mut[m].phase = "rolled" /\ ~mut[m].overlapped /\ mut[m].before # None)
      => cache[mut[m].key] = mut[m].before

\* a failed mutation whose optimistic write had changed a two-element entry
C1_Witness ==
  \E m \in MutIds :
    /\ mut[m].phase = "rolled" /\ ~mut[m].overlapped
    /\ mut[m].before # None /\ Len(mut[m].before[1]) = 2
    /\ mut[m].applied # mut[m].before[1]
    /\ cache[mut[m].key] = mut[m].before

\* C2: when M2 starts while M1's remote call is in flight, M2 succeeds first and
\* M1 fails afterwards, the entry after M1's onError reflects M2's change and is
\* not M1's pre-mutation snapshot.
C2_ConcurrentSerialization ==
  \A m \in MutIds :
    (mut[m].phase = "rolled" /\ mut[m].okSeen # {})
      => cache[mut[m].key] # mut[m].previous

\* C3: every key present in the cache when a termination signal is emitted (or
\* logout is called) reads absent once the session manager has finished
\* processing it, however the processing ends.
C3_PurgeComplete ==
  [][\A c \in Consumers :
       /\ TermEnds(c) => \A k \in term[c].keys : cache'[k] = None
       /\ LogoutEnds(c) => \A k \in logoutOp[c].keys : cache'[k] = None]_vars

\* C4: in a login or registration, no step of the success handler sets the
\* in-memory user before the writes of the access token, of the refresh token
\* (when the response has one) and of the user profile have all completed.
C4_PersistBeforePublish ==
  [][\A c \in Consumers :
       (loginOp'[c] # loginOp[c] /\ user'[c] # user[c])
         => /\ loginOp[c].data # None
            /\ loginOp[c].wrote = Required(loginOp[c].data[1])
            /\ user'[c] = Some(loginOp[c].data[1].user)]_vars

\* a login has published Alice after writing her three entries
C4_Witness ==
  /\ loginOp[1].pc = "done"
  /\ user[1] = Some(Alice)
  /\ store = [access |-> Some("t1"), refresh |-> Some("r1"),
              user |-> Some(Stringify(Alice))]

\* C5: in every reachable state, a session manager whose in-memory user is set
\* finds an access token in the credential store.
C5_AuthenticatedHasToken ==
  \A c \in Consumers : user[c] # None => store.access # None

\* C6: no cache entry holds a collection read or written in an earlier session.
C6_NoCrossSessionEntry ==
  \A k \in Keys : cache[k] # None => ~stale[k]

\* C7: once a mutation that ran alone on its key has settled and the list query
\* is at rest without error, with no other mutation on the key in flight, the
\* entry is the remote API's collection and holds no temporary identifier.
C7_ReconciliationConverges ==
  \A m \in MutIds :
    LET k == mut[m].key
    IN (/\ mut[m].phase = "done" /\ ~mut[m].overlapped
        /\ ActiveOn(k) = {}
        /\ fetch[k].st = "idle" /\ ~fetch[k].err)
         => /\ cache[k] = Some(server[k])
            /\ \A i \in DOMAIN Collection(k) : Collection(k)[i].id < TempBase

\* a successful create has been reconciled: the server-issued identifier is there
C7_Witness ==
  \E m \in MutIds :
    /\ mut[m].phase = "done" /\ ~mut[m].overlapped
    /\ mut[m].kind = "create" /\ mut[m].outcome = "ok"
    /\ ActiveOn(mut[m].key) = {}
    /\ fetch[mut[m].key].st = "idle" /\ ~fetch[mut[m].key].err
    /\ cache[mut[m].key] = Some(server[mut[m].key])
    /\ \E i \in DOMAIN server[mut[m].key] : server[mut[m].key][i].id = FirstServerId

\* C8: the step that ends the success handler of a login or registration leaves
\* every key absent, those present when the login was called included.
C8_LoginClearsCache ==
  [][\A c \in Consumers :
       (loginOp[c].pc = "publish" /\ loginOp'[c].pc = "done")
         => \A k \in Keys : cache'[k] = None]_vars

\* a login called with both keys populated has finished
C8_Witness ==
  /\ loginOp[1].pc = "done"
  /\ loginOp[1].keys = Keys
  /\ user[1] # None
  /\ NoCache

\* C9: a logout call and a termination signal end in the same state: no
\* credential-store entry, no in-memory user in any session manager, no cache entry.
Purged ==
  /\ store = EmptyStore
  /\ \A c \in Consumers : user[c] = None
  /\ NoCache
C9_LogoutEqualsTermination ==
  [][((\E c \in Consumers : LogoutEnds(c))
        \/ ((\E c \in Consumers : TermEnds(c))
              /\ \A c \in Consumers : ~InProgress(term'[c])))
       => Purged']_vars

\* C10: whatever the outcome of the credential-store purge, the callback of a
\* termination signal ends with the in-memory user cleared and the cache empty.
C10_TerminationUnconditional ==
  [][\A c \in Consumers :
       TermEnds(c) => (user'[c] = None /\ \A k \in Keys : cache'[k] = None)]_vars

\* between its snapshot-and-apply step and its settlement
Applied(m) == mut[m].phase \in {"remote", "ok", "err", "rolled"}

\* C11: at no time are two mutations on the same key both between their
\* snapshot-and-apply step and their settlement.
C11_SerializedPerKey ==
  \A m, n \in MutIds :
    (m # n /\ mut[m].key = mut[n].key) => ~(Applied(m) /\ Applied(n))

\* a login, logout or profile refresh of consumer c ends successfully in this step
LoginDone(c) == loginOp[c].pc = "publish" /\ loginOp'[c].pc = "done"
LogoutDone(c) == logoutOp[c].pc = "cont" /\ logoutOp'[c].pc = "done"
RefreshDone(c) == refreshOp[c].pc = "publish" /\ refreshOp'[c].pc = "done"
\* the consumers whose bootstrap has finished
Ready == {d \in Consumers : boot[d].pc = "done"}

\* C12: when a login, logout or profile refresh made through one consumer ends
\* successfully, every other consumer observes the same user as that consumer.
C12_SharedSession ==
  [][\A c \in Consumers :
       (LoginDone(c) \/ LogoutDone(c) \/ RefreshDone(c))
         => \A d \in Ready : user'[d] = user'[c]]_vars

\* saveAuth(data) of consumer c completes in this step
SaveDone(c) == loginOp[c].pc = "saveUser" /\ loginOp'[c].pc = "publish"
\* the credential store that mirrors a login/registration response
Mirror(d) == [access |-> Some(d.access), refresh |-> d.refresh,
              user |-> Some(Stringify(d.user))]

\* C13: when saveAuth completes in a login that is the only session operation
\* called so far, the three stored entries are those of the response: the
\* refresh token is the response's, or absent when the response carries none.
C13_StoreMirrorsResponse ==
  [][\A c \in Consumers :
       (SaveDone(c) /\ authOps = 1) => store' = Mirror(loginOp[c].data[1])]_vars

\* the order of the steps of one mutation: cancel, snapshot-and-apply with the
\* remote call, its answer, the rollback after a failure, the settlement
PhaseOrder ==
  { << "idle", "cancel" >>, << "cancel", "remote" >>, << "remote", "ok" >>,
    << "remote", "err" >>, << "err", "rolled" >>, << "ok", "done" >>,
    << "rolled", "done" >> }

\* C14: the steps of one mutation run in strict order; the remote call is issued
\* only with the predicted collection already in the cache; and from the apply
\* step until the settle step a reader of the key finds the predicted
\* collection, when no other mutation has overlapped this one on the key.
C14_ApplyBeforeRemote ==
  [][\A m \in MutIds :
       /\ mut'[m].phase # mut[m].phase
            => << mut[m].phase, mut'[m].phase >> \in PhaseOrder
       /\ Len(mut'[m].sent) > Len(mut[m].sent)
            => /\ mut[m].phase = "cancel"
               /\ cache'[mut'[m].key] = Some(mut'[m].applied)
       /\ (mut'[m].phase \in {"remote", "ok", "err"} /\ ~mut'[m].overlapped)
            => cache'[mut'[m].key] = Some(mut'[m].applied)]_vars

\* the remote API has answered a remove that ran alone, and the reader still
\* finds the predicted collection, which differs from the entry before
C14_Witness ==
  \E m \in MutIds :
    /\ mut[m].phase = "ok" /\ ~mut[m].overlapped /\ mut[m].changed
    /\ mut[m].kind = "remove"
    /\ server[mut[m].key] # InitServer[mut[m].key]
    /\ cache[mut[m].key] = Some(mut[m].applied)

\* the snapshot-and-apply step of mutation m is this step
ApplyStep(m) == mut[m].phase = "cancel" /\ mut'[m].phase = "remote"
\* the collection a reader finds before and after this step
Old(m) == OrEmpty(cache[mut[m].key])
New(m) == OrEmpty(cache'[mut[m].key])

\* C15: the apply step of a create leaves the collection of before (empty when
\* the key was never populated) with exactly one entity appended at the end,
\* which carries the proposed title and a temporary identifier; the entities of
\* before and their order are unchanged.
C15_CreateAppends ==
  [][\A m \in MutIds :
       (ApplyStep(m) /\ mut[m].kind = "create")
         => /\ cache'[mut[m].key] # None
            /\ Len(New(m)) = Len(Old(m)) + 1
            /\ SubSeq(New(m), 1, Len(Old(m))) = Old(m)
            /\ New(m)[Len(New(m))].title = mut[m].title
            /\ New(m)[Len(New(m))].id >= TempBase]_vars

\* a create applied on a key that was never populated
C15_Witness ==
  \E m \in MutIds :
    /\ mut[m].phase = "remote" /\ mut[m].kind = "create"
    /\ mut[m].previous = None
    /\ cache[mut[m].key] = Some(<< [id |-> TempId(now), title |-> mut[m].title] >>)

\* C16: the apply step of an update leaves a collection of the same length and
\* order, in which every entity with the target id has the new title and its
\* other fields, and every other entity is unchanged (so with no match the
\* collection is unchanged).
C16_UpdateMerges ==
  [][\A m \in MutIds :
       (ApplyStep(m) /\ mut[m].kind = "update")
         => /\ cache'[mut[m].key] # None
            /\ Len(New(m)) = Len(Old(m))
            /\ \A i \in DOMAIN Old(m) :
                 IF Old(m)[i].id = mut[m].id
                 THEN New(m)[i] = [id |-> Old(m)[i].id, title |-> mut[m].title]
                 ELSE New(m)[i] = Old(m)[i]]_vars

\* an update applied on a three-element collection in which it changed the
\* entity with the target id
C16_Witness ==
  \E m \in MutIds :
    /\ mut[m].phase = "remote" /\ mut[m].kind = "update" /\ mut[m].changed
    /\ mut[m].previous # None /\ Len(mut[m].previous[1]) = 3
    /\ cache[mut[m].key] = Some(mut[m].applied)
    /\ \E i \in DOMAIN mut[m].applied :
         /\ mut[m].applied[i].id = mut[m].id
         /\ mut[m].applied[i].title = mut[m].title
         /\ mut[m].previous[1][i].title # mut[m].title

\* the entities of s whose identifier is not id, in their order
Others(s, id) == SelectSeq(s, LAMBDA e : e.id # id)

\* C17: the apply step of a remove leaves exactly the entities whose identifier
\* is not the target id, with their content and relative order (so with no
\* match the collection is unchanged).
C17_RemoveFilters ==
  [][\A m \in MutIds :
       (ApplyStep(m) /\ mut[m].kind = "remove")
         => /\ cache'[mut[m].key] # None
            /\ New(m) = Others(Old(m), mut[m].id)
            /\ (\A i \in DOMAIN Old(m) : Old(m)[i].id # mut[m].id) => New(m) = Old(m)]_vars

\* a remove applied on a three-element collection took out the middle entity
C17_Witness ==
  \E m \in MutIds :
    /\ mut[m].phase = "remote" /\ mut[m].kind = "remove" /\ mut[m].changed
    /\ mut[m].previous # None /\ Len(mut[m].previous[1]) = 3
    /\ mut[m].previous[1][2].id = mut[m].id
    /\ cache[mut[m].key] = Some(<< mut[m].previous[1][1], mut[m].previous[1][3] >>)

\* C18: no cache entry holds two entities with the same temporary identifier.
C18_TempIdsUnique ==
  \A k \in Keys :
    \A i, j \in DOMAIN Collection(k) :
      (i # j /\ Collection(k)[i].id >= TempBase)
        => Collection(k)[i].id # Collection(k)[j].id

\* the settle step of mutation m is this step: mutateAsync's promise settles
SettleStep(m) == mut[m].phase \in {"ok", "rolled"} /\ mut'[m].phase = "done"
\* the one request a mutation owes: POST endpoint, PUT or DELETE endpoint/id,
\* the last two followed by a slash or not
Owed(kind, k, id, slash) ==
  [method |-> CASE kind = "create" -> "POST"
                [] kind = "update" -> "PUT"
                [] kind = "remove" -> "DELETE",
   endpoint |-> k,
   id |-> IF kind = "create" THEN None ELSE Some(id),
   slash |-> (kind # "create" /\ slash)]
\* at its settle step the mutation has issued exactly the request it owes, and a
\* failure reaches the caller after the rollback
OneCallSurfaced(m, slash) ==
  /\ mut[m].sent = << Owed(mut[m].kind, mut[m].key, mut[m].id, slash) >>
  /\ mut'[m].outcome = mut[m].outcome
  /\ mut[m].outcome = "err" <=> mut[m].phase = "rolled"

C20_SettleInvalidates ==
  [][\A m \in MutIds :
       mut'[m].phase = "done" /\ mut[m].phase # "done"
         => /\ fetch'[mut[m].key].st = "sent"
            /\ mut[m].outcome = "err" => mut[m].phase = "rolled"
            /\ mut[m].outcome = "ok" => mut[m].phase = "ok"]_vars

\* a failed remove has settled after its rollback and the list query is fetching
C20_Witness ==
  \E m \in MutIds :
    /\ mut[m].phase = "done" /\ mut[m].kind = "remove" /\ mut[m].outcome = "err"
    /\ mut[m].changed
    /\ fetch[mut[m].key].st = "sent"
    /\ cache[mut[m].key] = Some(InitServer[mut[m].key])

\* a read of key k that was not superseded completes in this step (SpecReads)
DeliverStep(k) == fetch[k].st = "resp" /\ fetch'[k].st = "idle" /\ mut' = mut
\* a superseded read of key k completes in this step
DropStep(k) == wire[k].st = "resp" /\ wire'[k].st = "none"
\* no read of key k is on the wire
NoReadOf(k) == fetch[k].st = "idle" /\ wire[k].st \in {"off", "none"}

\* C21: a read of a key overwrites the entry with its payload unless a newer
\* read or a mutation's cancel step has superseded it, in which case its payload
\* is dropped: with several reads of the key in flight the entry is written by
\* the one issued last, whatever the order in which they complete.
C21_LastIssuedWins ==
  [][\A k \in Keys :
       /\ DeliverStep(k) => cache'[k] = Some(fetch[k].data)
       /\ DropStep(k) => cache'[k] = cache[k]]_vars

\* C21 as stated: when the last of the reads in flight for a key completes, the
\* entry is the payload of that read. (With no mutation in flight on the key, a
\* superseded read that completes last was in flight together with the read
\* that the settle step of the superseding mutation issued.)
C21_AsStated ==
  [][\A k \in Keys :
       /\ (DeliverStep(k) /\ NoReadOf(k)') => cache'[k] = Some(fetch[k].data)
       /\ (DropStep(k) /\ NoReadOf(k)' /\ ActiveOn(k) = {})
            => cache'[k] = Some(wire[k].data)]_vars

\* the read issued last has written the entry, and the read it superseded is
\* about to complete after it with another payload
C21_Witness ==
  \E k \in Keys :
    /\ wire[k].st = "resp" /\ fetch[k].st = "idle"
    /\ ActiveOn(k) = {}
    /\ cache[k] # None /\ cache[k] = wire[k].seen
    /\ wire[k].data # cache[k][1]

\* C22: a read that completes with the payload the read before it wrote leaves
\* the entry that the read before it left.
C22_ReconcileIdempotent ==
  [][\A k \in Keys :
       (DeliverStep(k) /\ wire'[k].again) => cache'[k] = wire[k].seen]_vars

\* two reads in a row have written the same two-element payload
C22_Witness ==
  \E k \in Keys :
    /\ wire[k].again /\ wire[k].seen # None /\ Len(wire[k].seen[1]) = 2
    /\ fetch[k].st = "idle"
    /\ cache[k] = wire[k].seen

\* the cancel step of mutation m is this step
StartStep(m) == mut[m].phase = "idle" /\ mut'[m].phase = "cancel"

\* C23: the cancel step of a mutation supersedes the read of its key that is
\* outstanding, before the snapshot is taken, and the completion of a superseded
\* read leaves the entry as it is; the step leaves the other mutations and
\* their remote calls as they are.
C23_CancelInFlight ==
  [][/\ \A m \in MutIds :
          /\ StartStep(m)
               => /\ fetch'[mut'[m].key].st = "idle"
                  /\ fetch[mut'[m].key].st # "idle"
                       => wire'[mut'[m].key].st = fetch[mut'[m].key].st
                  /\ \A n \in MutIds \ {m} :
                       /\ mut'[n].phase = mut[n].phase
                       /\ mut'[n].sent = mut[n].sent
          /\ ApplyStep(m) => mut[m].sent = << >>
     /\ \A k \in Keys : DropStep(k) => cache'[k] = cache[k]]_vars

\* the read superseded by a mutation has its answer while the optimistic write
\* of that mutation, which differs from the answer, is in the cache
C23_Witness ==
  \E m \in MutIds :
    /\ mut[m].phase = "remote" /\ ~mut[m].overlapped /\ mut[m].changed
    /\ wire[mut[m].key].st = "resp"
    /\ cache[mut[m].key] = Some(mut[m].applied)
    /\ wire[mut[m].key].data # mut[m].applied

\* C24: for every consumer and role name r, hasRole(r) is true exactly when
\* a user is in memory, has a role field and that field is r.
C24_HasRoleExact ==
  \A c \in Consumers, r \in RoleNames :
    HasRole(user[c], r)
      <=> (user[c] # None /\ user[c][1].role # None /\ user[c][1].role[1] = r)

\* an admin is in memory: hasRole("admin") holds and hasRole("user") does not
C24_Witness ==
  /\ user[1] = Some(Alice)
  /\ HasRole(user[1], "admin")
  /\ ~HasRole(user[1], "user")

\* the permissions of the user in memory, as a set
Granted(c) ==
  IF user[c] = None \/ user[c][1].permissions = None THEN {}
  ELSE Range(user[c][1].permissions[1])

\* C25: hasPermission(p) is true exactly when p is among the permissions of the
\* user in memory, and hasAnyPermission(list) exactly when some element of list
\* is; both are false with no user or no permissions field, and
\* hasAnyPermission is false for the empty list.
C25_PermissionMembership ==
  \A c \in Consumers :
    /\ \A p \in PermNames : HasPermission(user[c], p) <=> p \in Granted(c)
    /\ \A list \in PermLists :
         HasAnyPermission(user[c], list) <=> (Range(list) \cap Granted(c) # {})

\* a user with read and write is in memory: a list with write in second place
\* passes, a list without any of the two and the empty list do not
C25_Witness ==
  /\ user[1] = Some(Alice)
  /\ HasPermission(user[1], "read") /\ ~HasPermission(user[1], "delete")
  /\ HasAnyPermission(user[1], << "delete", "write" >>)
  /\ ~HasAnyPermission(user[1], << "delete" >>)
  /\ ~HasAnyPermission(user[1], << >>)

(* --------------------------- session event bus ------------------------- *)
Before(ls, a, b) == \E i, j \in DOMAIN ls : i < j /\ ls[i] = a /\ ls[j] = b

\* C26: an emitLogout() invokes every callback subscribed at that moment exactly
\* once, in the order of the subscriptions, and no other callback; when it
\* returns every invoked callback is suspended at its first await: the store,
\* the users in memory and the cache are as they were, no asynchronous work of
\* a callback has been waited for
C26_EmitInvokesAll ==
  [][authOps' # authOps =>
       /\ \A c \in Consumers :
            IF \E i \in DOMAIN listeners : listeners[i] = c
            THEN /\ term'[c].pc = "clearing"
                 /\ \A i \in DOMAIN listeners : listeners[i] = c => term'[c].nth = i
            ELSE term'[c] = term[c]
       /\ store' = store /\ user' = user /\ cache' = cache
       /\ listeners' = listeners]_vars

\* callers 1 and 3 are subscribed, caller 2 has unsubscribed, and an emit has
\* just invoked 1 then 3 while 2 was left alone
C26_Witness ==
  /\ listeners = << 1, 3 >>
  /\ term[1].pc = "clearing" /\ term[1].nth = 1
  /\ term[3].pc = "clearing" /\ term[3].nth = 2
  /\ term[2].pc = "idle"
  /\ store.access # None

\* C27: calling the function subscribe() returned removes exactly its callback
\* and keeps the others in their order; calling it again changes nothing
C27_UnsubscribePrecise ==
  \A c \in Consumers :
    boot[c].pc # "idle" =>
      LET once == Without(listeners, c)
          twice == Without(once, c)
      IN /\ Range(once) = Range(listeners) \ {c}
         /\ Len(once) = Cardinality(Range(listeners) \ {c})
         /\ \A a, b \in Range(once) : Before(once, a, b) <=> Before(listeners, a, b)
         /\ twice = once

\* caller 2 has unsubscribed: 1 and 3 are left, in the order they subscribed
C27_Witness ==
  /\ listeners = << 1, 3 >>
  /\ \A c \in Consumers : boot[c].pc # "idle"
  /\ \A c \in Consumers : term[c].pc = "idle"

(* ------------------------ bootstrap and refresh ------------------------ *)
BootEnds(c) == boot[c].pc = "read" /\ boot'[c].pc = "done"

\* C28: the bootstrap decides from the stored user alone: nothing stored leaves
\* the caller without a user, a stored profile becomes the user in memory, and
\* before any session operation that is the profile the store holds; the
\* decision issues no remote call and writes nothing; loading is true until
\* the decision and false afterwards
C28_BootstrapDecides ==
  [][\A c \in Consumers :
       /\ boot'[c].pc # "done" => loading'[c]
       /\ boot'[c].pc = "done" => ~loading'[c]
       /\ BootEnds(c) =>
            /\ boot[c].val = None => user'[c] = user[c]
            /\ boot[c].val # None => user'[c] = Some(Parse(boot[c].val[1]))
            /\ authOps = 0 =>
                 /\ user'[c] = None <=> store.user = None
                 /\ store.user # None => Stringify(user'[c][1]) = store.user[1]
            /\ loginOp' = loginOp /\ refreshOp' = refreshOp /\ auxOp' = auxOp
            /\ fetch' = fetch /\ store' = store]_vars

\* the bootstrap of a caller has found the stored profile and published it
C28_Witness ==
  /\ boot[1].pc = "done"
  /\ authOps = 0
  /\ store.user = Some(Stringify(Alice))
  /\ user[1] = Some(Alice)
  /\ ~loading[1]

RefreshSaves(c) == refreshOp[c].pc = "save" /\ refreshOp'[c].pc = "publish"
RefreshPublishes(c) == refreshOp[c].pc = "publish" /\ refreshOp'[c].pc = "done"
RefreshFails(c) == refreshOp[c].pc = "remote" /\ refreshOp'[c].pc = "failed"

\* C29: a successful refreshUser first overwrites the stored user with the
\* fetched profile, the user in memory still being the old one, and then sets
\* the user in memory to the fetched profile; neither step touches the stored
\* tokens or a cache entry; a failed refreshUser changes none of them
C29_RefreshFrame ==
  [][\A c \in Consumers :
       /\ RefreshSaves(c) =>
            /\ store' = [store EXCEPT !.user = Some(Stringify(refreshOp[c].data[1]))]
            /\ user' = user
            /\ cache' = cache
       /\ RefreshPublishes(c) =>
            /\ user' = [user EXCEPT ![c] = refreshOp[c].data]
            /\ user'[c] # None
            /\ store' = store
            /\ cache' = cache
       /\ RefreshFails(c) =>
            store' = store /\ user' = user /\ cache' = cache]_vars

\* a refresh has replaced Alice by Bob in the store and in memory; the tokens of
\* the session and the cached collection are still there
C29_Witness ==
  /\ refreshOp[1].pc = "done"
  /\ user[1] = Some(Bob)
  /\ store = [access |-> Some("t0"), refresh |-> Some("r0"),
              user |-> Some(Stringify(Bob))]
  /\ cache["posts"] # None

(* ---------------------- flows outside the session ---------------------- *)
\* login.mutateAsync / register.mutateAsync rejects: the POST failed, or
\* onSuccess threw in saveAuth
LoginFails(c) == InProgress(loginOp[c]) /\ loginOp'[c].pc = "failed"
AuxEnds(c) == auxOp[c].pc = "remote" /\ auxOp'[c].pc # "remote"

\* C30: a login or registration that fails, and a password-recovery, OTP or
\* change-password call whatever its outcome, have written nothing to the
\* credential store and leave the store, the users in memory and the cache as
\* they were, have issued their request once, start no logout, and when they
\* fail show the error and reject
C30_FlowsLeaveSession ==
  [][\A c \in Consumers :
       (LoginFails(c) \/ AuxEnds(c)) =>
         /\ store' = store /\ user' = user /\ cache' = cache
         /\ logoutOp' = logoutOp /\ term' = term
         /\ LoginFails(c) =>
              /\ loginOp[c].wrote = {}
              /\ loginOp'[c].sent = 1
              /\ loginOp'[c].toast
         /\ AuxEnds(c) =>
              /\ auxOp'[c].pc \in {"done", "failed"}
              /\ auxOp'[c].sent = 1
              /\ auxOp'[c].pc = "failed" => auxOp'[c].toast]_vars

(* --------------------------- purge per event --------------------------- *)
\* the callback of consumer c runs setUser(null); queryClient.clear() in this step
PurgeStep(c) == term[c].pc = "cont" /\ term'[c].pc = "done"
\* the callbacks that have run queryClient.clear() for the event emitted last
\* (no callback unsubscribes: every one that ran for an earlier event has been
\* invoked again)
PurgedFor == {c \in Consumers : term[c].pc = "done"}

\* C31: queryClient.clear() runs once per emitLogout(): a callback runs it only
\* if no other callback has run it for the same event, however many session
\* managers are subscribed
C31_PurgeOncePerEvent ==
  [][\A c \in Consumers : PurgeStep(c) => PurgedFor \ {c} = {}]_vars

(* -------------------------- rollback of absence ------------------------ *)
\* C32: a create, update or remove called on a key that reads absent, alone on
\* the key, whose remote call fails, leaves the key absent once onError has run
\* and before the reconciliation read writes
C32_RollbackRestoresAbsence ==
  \A m \in MutIds :
    (mut[m].phase = "rolled" /\ ~mut[m].overlapped /\ mut[m].before = None)
      => cache[mut[m].key] = None

(* ------------------------- destroyed sessions -------------------------- *)
\* a logout or a termination signal of consumer c has been processed and no
\* login or registration has succeeded since: only they set the user after it
Destroyed(c) ==
  /\ user[c] = None
  /\ logoutOp[c].pc = "done" \/ term[c].pc = "done"

\* C33: once the session of a consumer is destroyed, only the success handler
\* of a login or registration sets its user again, and no profile refresh
\* writes the stored user
C33_DestroyedStaysDestroyed ==
  [][\A c \in Consumers :
       Destroyed(c) =>
         /\ user'[c] # None => LoginDone(c)
         /\ RefreshSaves(c) => store'.user = store.user]_vars

(* ------------------------ quiescent convergence ------------------------ *)
\* every mutation called so far has settled, and every read of the key, the
\* superseded ones included, has completed without error
Quiescent(k) ==
  /\ \A m \in MutIds : mut[m].phase \in {"idle", "done"}
  /\ \E m \in MutIds : mut[m].phase = "done" /\ mut[m].key = k
  /\ fetch[k].st = "idle" /\ ~fetch[k].err
  /\ wire[k].st = "none"

\* C34: whatever the interleaving of the mutations on a key and of their remote
\* outcomes, once they have all settled and every read has completed the entry
\* is the remote API's collection and holds no temporary identifier
C34_QuiescentConvergence ==
  \A k \in MutKeys :
    Quiescent(k) =>
      /\ cache[k] = Some(server[k])
      /\ \A i \in DOMAIN Collection(k) : Collection(k)[i].id < TempBase

\* a create that succeeded and a mutation that failed have overlapped on the
\* key; all is at rest and the entry is the remote collection with the entity
\* the create added
C34_Witness ==
  /\ Quiescent("posts")
  /\ \E m, n \in MutIds :
       /\ mut[m].overlapped /\ mut[n].overlapped
       /\ mut[m].kind = "create" /\ mut[m].outcome = "ok"
       /\ mut[n].outcome = "err"
  /\ cache["posts"] = Some(server["posts"])
  /\ \E i \in DOMAIN server["posts"] : server["posts"][i].id = FirstServerId

(* -------------------------- end of bootstrap --------------------------- *)
\* C35: every session manager that has mounted eventually has its loading flag
\* false, whatever the stored user read gives (a profile, nothing, a rejection,
\* a string that does not parse), and a loading flag that is false stays false
C35_BootstrapEnds ==
  /\ \A c \in Consumers : (boot[c].pc # "idle") ~> ~loading[c]
  /\ [][\A c \in Consumers : ~loading[c] => ~loading'[c]]_vars
====
